---- MODULE Spec2Model ----
(***************************************************************************)
(* A model of restoreMongo.py: the metadata loader (load_json), the        *)
(* synthetic document generator (generate_synthetic_document), the index   *)
(* recreator (restore_indexes), the collection restorer                    *)
(* (recreate_collection) and the restore driver (main).                    *)
(*                                                                         *)
(* Python values are tagged records [t, v]: "null" (None / JSON null),     *)
(* "num", "bool", "str", "arr" (a sequence of values), "obj" (a dict: a    *)
(* sequence of <<key, value>> pairs in insertion order, keys distinct),    *)
(* "oid" (an ObjectId made by the driver, never the result of json.load)   *)
(* and "tok" (an opaque value of the named kind produced by Faker or the   *)
(* random module where no claim depends on its content).                   *)
(***************************************************************************)
EXTENDS Integers, Sequences, FiniteSets, TLC

VARIABLES
    root,            \* the metadata root: [exists, dbs], read-only input
    serverUp,        \* whether client.server_info() answers (check_compatibility)
    store,           \* the target: <<db, coll>> -> [exists, docs, indexes]
    nextId,          \* the next fresh ObjectId the driver hands out
    faults,          \* number of target operations that may still raise
    faulted,         \* TRUE once a target operation has raised
    pc,              \* position of the control thread
    di, ci,          \* position of main's two loops (entries already taken)
    stats,           \* main's statistics counters
    sample_document, \* recreate_collection's local
    schema_metadata, \* recreate_collection's local
    path,            \* which insertion branch recreate_collection took
    ii,              \* restore_indexes: descriptors of the list already handled
    ret,             \* recreate_collection's return value, "none" before it returns
    calls,           \* target requests issued by the current recreate_collection
    run,             \* how many times main has been started
    firstCounts,     \* document count per collection when the first run ended
    schema_in,       \* generator call: the schema descriptor given
    include_id_in,   \* generator call: the include_id argument
    fake_doc         \* generator call: the document returned

vars == <<root, serverUp, store, nextId, faults, faulted, pc, di, ci, stats,
          sample_document, schema_metadata, path, ii, ret, calls, run,
          firstCounts, schema_in, include_id_in, fake_doc>>

-----------------------------------------------------------------------------
(* Bounds of the model *)

MaxFaults == 1
MaxRuns == 2
MaxInitDocs == 1

(* Program constants *)

SYNTHETIC_DOCS_COUNT == 10
ASCENDING == 1
DESCENDING == -1
AGE_LO == 18
AGE_HI == 80
YEAR_LO == 1950
YEAR_HI == 2025
COUNT_HI == 1000
INT_HI == 100

-----------------------------------------------------------------------------
(* Python / JSON values *)

Null == [t |-> "null", v |-> "None"]
Num(n) == [t |-> "num", v |-> n]
Bool(b) == [t |-> "bool", v |-> b]
Str(s) == [t |-> "str", v |-> s]
Arr(s) == [t |-> "arr", v |-> s]
Obj(s) == [t |-> "obj", v |-> s]
Oid(n) == [t |-> "oid", v |-> n]
Tok(k) == [t |-> "tok", v |-> k]

IsObj(j) == j.t = "obj"
IsArr(j) == j.t = "arr"

\* Python truthiness (`if x`, `not x`)
Truthy(j) ==
    CASE j.t = "null" -> FALSE
      [] j.t = "num" -> j.v # 0
      [] j.t = "bool" -> j.v
      [] j.t = "str" -> j.v # ""
      [] j.t = "arr" -> Len(j.v) > 0
      [] j.t = "obj" -> Len(j.v) > 0
      [] OTHER -> TRUE

Keys(pairs) == [i \in 1..Len(pairs) |-> pairs[i][1]]
HasKey(pairs, k) == \E i \in 1..Len(pairs) : pairs[i][1] = k
\* d[k] for a key that is present
Get(pairs, k) == pairs[CHOOSE i \in 1..Len(pairs) : pairs[i][1] = k][2]
\* {k: v for k, v in d.items() if k not in drop}; also `del d[k]`
Without(pairs, drop) == SelectSeq(pairs, LAMBDA p : p[1] \notin drop)

\* `s in j` for a string s: "true", "false", or "raise" (TypeError).
\* A dict tests its keys, a list its elements; None and numbers are not
\* containers.
PyContains(j, s) ==
    CASE j.t = "obj" -> IF HasKey(j.v, s) THEN "true" ELSE "false"
      [] j.t = "arr" -> IF \E i \in 1..Len(j.v) : j.v[i].t = "str" /\ j.v[i].v = s
                        THEN "true" ELSE "false"
      [] j.t \in {"null", "num", "bool"} -> "raise"

-----------------------------------------------------------------------------
(* Field names: the strings the model uses, with their characters, so that *)
(* `in`, lower(), startswith() and slicing are computed, not assumed.      *)

Chars(s) ==
    CASE s = "_id" -> <<"_", "i", "d">>
      [] s = "age" -> <<"a", "g", "e">>
      [] s = "Age" -> <<"A", "g", "e">>
      [] s = "page" -> <<"p", "a", "g", "e">>
      [] s = "year" -> <<"y", "e", "a", "r">>
      [] s = "count" -> <<"c", "o", "u", "n", "t">>
      [] s = "n" -> <<"n">>
      [] s = "ok" -> <<"o", "k">>
      [] s = "u" -> <<"u">>
      [] s = "u.age" -> <<"u", ".", "a", "g", "e">>
      [] s = "u._id" -> <<"u", ".", "_", "i", "d">>
      [] s = "loc" -> <<"l", "o", "c">>
      [] s = "name" -> <<"n", "a", "m", "e">>
      [] s = "email" -> <<"e", "m", "a", "i", "l">>
      [] s = "location" -> <<"l", "o", "c", "a", "t", "i", "o", "n">>
      [] s = "location.type" -> <<"l", "o", "c", "a", "t", "i", "o", "n", ".", "t", "y", "p", "e">>
      [] s = "type" -> <<"t", "y", "p", "e">>
      [] s = "tags" -> <<"t", "a", "g", "s">>
      [] s = "geo" -> <<"g", "e", "o">>
      [] s = "when" -> <<"w", "h", "e", "n">>
      [] s = "city" -> <<"c", "i", "t", "y">>
      [] s = "address" -> <<"a", "d", "d", "r", "e", "s", "s">>
      [] s = "phone" -> <<"p", "h", "o", "n", "e">>
      [] s = "url" -> <<"u", "r", "l">>
      [] s = "website" -> <<"w", "e", "b", "s", "i", "t", "e">>
      [] s = "date" -> <<"d", "a", "t", "e">>
      [] s = "description" -> <<"d", "e", "s", "c", "r", "i", "p", "t", "i", "o", "n">>
      [] s = "notes" -> <<"n", "o", "t", "e", "s">>
      [] s = "comment" -> <<"c", "o", "m", "m", "e", "n", "t">>
      [] s = "quantity" -> <<"q", "u", "a", "n", "t", "i", "t", "y">>
      [] s = "price" -> <<"p", "r", "i", "c", "e">>
      [] s = "cost" -> <<"c", "o", "s", "t">>
      [] s = "fee" -> <<"f", "e", "e">>
      [] s = "rating" -> <<"r", "a", "t", "i", "n", "g">>
      [] s = "score" -> <<"s", "c", "o", "r", "e">>
      [] s = "categories" -> <<"c", "a", "t", "e", "g", "o", "r", "i", "e", "s">>

FieldNames == {"_id", "age", "Age", "page", "year", "count", "n", "ok", "u", "u.age", "u._id", "loc", "name", "email", "location", "location.type", "type", "tags", "geo", "when"}

Name(cs) == CHOOSE s \in FieldNames : Chars(s) = cs

LowerChar(c) == CASE c = "A" -> "a" [] OTHER -> c
Lower(cs) == [i \in 1..Len(cs) |-> LowerChar(cs[i])]

\* `sub in s` on strings
Contains(cs, sub) ==
    \E k \in 0..(Len(cs) - Len(sub)) :
        \A i \in 1..Len(sub) : cs[k + i] = sub[i]
StartsWith(cs, pre) ==
    Len(pre) <= Len(cs) /\ \A i \in 1..Len(pre) : cs[i] = pre[i]

\* "<word>" in field.lower()
FieldHas(field, word) == Contains(Lower(Chars(field)), Chars(word))
HasDot(field) == Contains(Chars(field), <<".">>)

-----------------------------------------------------------------------------
(* generate_synthetic_document.  Faker and the random module make it       *)
(* nondeterministic: each operator yields the SET of values the code can   *)
(* produce.  Integers are drawn from the code's ranges; the other random   *)
(* values are opaque tokens of the kind the branch produces.               *)

\* elements of a type-tag container, as Python iterates it
TagsOf(types) == IF IsObj(types) THEN Keys(types.v)
                 ELSE [i \in 1..Len(types.v) |-> types.v[i].v]
Has(types, tag) == PyContains(types, tag) = "true"

\* words a type tag contains as substrings ("GeoJSON" in t, "Point" in str(types))
TagWords(tag) ==
    CASE tag = "GeoJSON Point" -> {"GeoJSON", "Point"}
      [] tag = "GeoJSON LineString" -> {"GeoJSON", "LineString"}
      [] tag = "GeoJSON Polygon" -> {"GeoJSON", "Polygon"}
      [] tag = "GeoJSON" -> {"GeoJSON"}
      [] tag = "Point" -> {"Point"}
      [] OTHER -> {}
AnyTagHas(types, word) ==
    \E i \in 1..Len(TagsOf(types)) : word \in TagWords(TagsOf(types)[i])

Words(n) == Arr([i \in 1..n |-> Tok("word")])
PointValue == Obj(<< <<"type", Str("Point")>>,
                     <<"coordinates", Arr(<<Tok("longitude"), Tok("latitude")>>)>> >>)

\* d.update(e): a key already present keeps its place and takes e's value,
\* new keys are appended in e's order
Update(d, e) ==
    [i \in 1..Len(d) |-> IF HasKey(e, d[i][1]) THEN <<d[i][1], Get(e, d[i][1])>>
                         ELSE d[i]]
    \o SelectSeq(e, LAMBDA p : ~HasKey(d, p[1]))

\* variant: the _id field is not skipped
SkipFieldKeepId(field, include_id) == HasDot(field)
\* lines 114-119: the fields the loop skips
SkipField(field, include_id) ==
    HasDot(field) \/ (field = "_id" /\ ~include_id)

\* lines 122-140
GenString(field, types) ==
    IF FieldHas(field, "email") THEN {Tok("email")}
    ELSE IF FieldHas(field, "name") THEN {Tok("name")}
    ELSE IF FieldHas(field, "city") THEN {Tok("city")}
    ELSE IF FieldHas(field, "address") THEN {Tok("address")}
    ELSE IF FieldHas(field, "phone") THEN {Tok("phone_number")}
    ELSE IF FieldHas(field, "url") \/ FieldHas(field, "website") THEN {Tok("url")}
    ELSE IF FieldHas(field, "date") /\ ~(Has(types, "date") \/ Has(types, "timestamp"))
         \* faker.date() is a str, which has no isoformat(): AttributeError,
         \* caught at line 228, the field becomes None
         THEN {Null}
    ELSE IF FieldHas(field, "description") \/ FieldHas(field, "notes")
            \/ FieldHas(field, "comment") THEN {Tok("paragraph")}
    ELSE {Tok("word")}

\* variant: without the age range
GenIntNoAge(field) ==
    IF FieldHas(field, "year") THEN {Num(n) : n \in YEAR_LO..YEAR_HI}
    ELSE IF FieldHas(field, "count") \/ FieldHas(field, "quantity")
         THEN {Num(n) : n \in 1..COUNT_HI}
    ELSE {Num(n) : n \in 1..INT_HI}
\* lines 141-150
GenInt(field) ==
    IF FieldHas(field, "age") THEN {Num(n) : n \in AGE_LO..AGE_HI}
    ELSE IF FieldHas(field, "year") THEN {Num(n) : n \in YEAR_LO..YEAR_HI}
    ELSE IF FieldHas(field, "count") \/ FieldHas(field, "quantity")
         THEN {Num(n) : n \in 1..COUNT_HI}
    ELSE {Num(n) : n \in 1..INT_HI}

\* lines 153-159
GenDouble(field) ==
    IF FieldHas(field, "price") \/ FieldHas(field, "cost") \/ FieldHas(field, "fee")
    THEN {Tok("double_2dp_1_1000")}
    ELSE IF FieldHas(field, "rating") \/ FieldHas(field, "score")
         THEN {Tok("double_1dp_0_5")}
    ELSE {Tok("double_2dp_1_1000")}

\* lines 166-170
GenArray(field) ==
    IF FieldHas(field, "tags") \/ FieldHas(field, "categories")
    THEN {Words(n) : n \in 1..5}
    ELSE {Words(3)}

\* lines 198-225: the values set for a GeoJSON field; none when no geometry
\* word matches (the chain has no else there, the key is left out)
GenGeo(types) ==
    IF AnyTagHas(types, "Point") THEN {Tok("geo_point")}
    ELSE IF AnyTagHas(types, "LineString") THEN {Tok("geo_linestring")}
    ELSE IF AnyTagHas(types, "Polygon") THEN {Tok("geo_polygon")}
    ELSE {}

\* lines 186-188: the sub-schema of the dot-path descendants of `field`
NestedFields(schema, field) ==
    LET prefix == Chars(field) \o <<".">>
        sel == SelectSeq(schema, LAMBDA p : StartsWith(Chars(p[1]), prefix))
    IN [i \in 1..Len(sel) |->
           <<Name(SubSeq(Chars(sel[i][1]), Len(prefix) + 1, Len(Chars(sel[i][1])))),
             sel[i][2]>>]

RECURSIVE generate_synthetic_document(_, _)
RECURSIVE GenFrom(_, _, _)

\* lines 171-192
GenObject(schema, field) ==
    IF /\ field = "location"
       /\ HasKey(schema, "location.type")
       /\ Truthy(Get(schema, "location.type"))
       /\ Has(Get(schema, "location.type"), "Point")
    THEN {PointValue}
    ELSE LET nested_fields == NestedFields(schema, field)
             base == << <<"nested_key", Tok("word")>> >>
         IN IF Len(nested_fields) > 0
            THEN {Obj(Update(base, nested_doc)) :
                     nested_doc \in generate_synthetic_document(nested_fields, FALSE)}
            ELSE {Obj(base)}

\* lines 121-230: the entries one field adds to fake_doc, a set of sequences
\* of at most one <<field, value>> pair
GenField(schema, field, types) ==
    LET one(vals) == {<< <<field, val>> >> : val \in vals}
    IN IF PyContains(types, "string") = "raise" THEN one({Null})  \* lines 228-230
       ELSE IF Has(types, "string") THEN one(GenString(field, types))
       ELSE IF Has(types, "int") THEN one(GenInt(field))
       ELSE IF Has(types, "long") THEN one({Tok("long")})
       ELSE IF Has(types, "double") THEN one(GenDouble(field))
       ELSE IF Has(types, "Decimal128") THEN one({Tok("Decimal128")})
       ELSE IF Has(types, "boolean") THEN one({Bool(TRUE), Bool(FALSE)})
       ELSE IF Has(types, "date") THEN one({Tok("datetime_iso")})
       ELSE IF Has(types, "array") THEN one(GenArray(field))
       ELSE IF Has(types, "object") THEN one(GenObject(schema, field))
       ELSE IF Has(types, "ObjectId") THEN one({Tok("objectid_str")})
       ELSE IF Has(types, "null") THEN one({Null})
       ELSE IF AnyTagHas(types, "GeoJSON")
            THEN IF GenGeo(types) = {} THEN {<<>>} ELSE one(GenGeo(types))
       ELSE one({Str("unknown")})

\* the loop of lines 111-230 over the items from position k on
GenFrom(schema, k, include_id) ==
    IF k > Len(schema) THEN {<<>>}
    ELSE LET field == schema[k][1]
             rest == GenFrom(schema, k + 1, include_id)
         IN IF SkipField(field, include_id) THEN rest
            ELSE {e \o r : e \in GenField(schema, field, schema[k][2]), r \in rest}

\* lines 102-232: the documents a call can return (schema: the dict's items)
generate_synthetic_document(schema, include_id) == GenFrom(schema, 1, include_id)

-----------------------------------------------------------------------------
(* Metadata files and load_json *)

Absent == [kind |-> "absent"]
EmptyFile == [kind |-> "empty"]          \* size 0
Corrupt == [kind |-> "corrupt"]          \* text json.load rejects (JSONDecodeError)
Undecodable == [kind |-> "undecodable"]  \* bytes that are not UTF-8 (UnicodeDecodeError)
Json(j) == [kind |-> "json", value |-> j]

\* lines 84-99.  raised: an exception leaves load_json (only JSONDecodeError
\* is caught); v: the value returned, None for a missing, empty or corrupt file
load_json(file) ==
    CASE file.kind = "absent" -> [raised |-> FALSE, v |-> Null]
      [] file.kind = "empty" -> [raised |-> FALSE, v |-> Null]
      [] file.kind = "corrupt" -> [raised |-> FALSE, v |-> Null]
      [] file.kind = "undecodable" -> [raised |-> TRUE, v |-> Null]
      [] file.kind = "json" -> [raised |-> FALSE, v |-> file.value]

\* lines 286-296: what recreate_collection decides from the two files.
\* kind: "raise" (an exception leaves recreate_collection), "skip" (return
\* False, no valid metadata), "sample" or "schema" (the insertion branch)
MetadataOutcome(folder) ==
    LET s == load_json(folder.sample)
        none == [kind |-> "raise", sample_document |-> Null, schema_metadata |-> Null]
    IN IF s.raised THEN none
       ELSE IF Truthy(s.v) /\ ~IsObj(s.v) THEN none   \* .get on a list, str, number
       ELSE LET sd == IF Truthy(s.v) /\ HasKey(s.v.v, "sample_document")
                      THEN Get(s.v.v, "sample_document") ELSE Null
            IN IF Truthy(sd)
               THEN [kind |-> "sample", sample_document |-> sd, schema_metadata |-> Null]
               ELSE LET m == load_json(folder.schema)
                    IN IF m.raised THEN none
                       ELSE IF ~Truthy(m.v)
                       THEN [kind |-> "skip", sample_document |-> sd, schema_metadata |-> m.v]
                       ELSE IF PyContains(m.v, "schema") = "raise" THEN none
                       ELSE IF PyContains(m.v, "schema") = "false"
                       THEN [kind |-> "skip", sample_document |-> sd, schema_metadata |-> m.v]
                       ELSE [kind |-> "schema", sample_document |-> sd, schema_metadata |-> m.v]

\* variant: the _id field is kept
StripIdKeep(doc) == doc
\* lines 302-305: the copy of the sample document that is inserted
StripId(doc) == Without(doc, {"_id"})

\* variant: the schema file is not read on the sample branch
LateSchemaSkip(file) == [raised |-> FALSE, v |-> Null]
\* lines 313-314: the schema file is read after the sample document is inserted
LateSchema(file) == load_json(file)

-----------------------------------------------------------------------------
(* restore_indexes *)

GEOSPHERE == Str("2dsphere")

\* lines 253-260: one key of index["key"].  Python's == compares numbers by
\* value, so a marker 1.0 or true also takes the first numeric branch: Num(n)
\* stands for any number equal to n
Direction(value) ==
    IF value.t = "str" /\ value.v = "2dsphere" THEN GEOSPHERE
    ELSE IF value.t = "num" /\ value.v = 1 THEN Num(ASCENDING)
    ELSE IF value.t = "num" /\ value.v = -1 THEN Num(DESCENDING)
    ELSE value

\* variant: the key order is not kept
KeyItemsReversed(key) ==
    [i \in 1..Len(key) |-> <<key[Len(key) + 1 - i][1], Direction(key[Len(key) + 1 - i][2])>>]
\* lines 250-260
KeyItems(key) == [i \in 1..Len(key) |-> <<key[i][1], Direction(key[i][2])>>]

\* lines 263-264
Options(index) == Without(index, {"v", "key", "ns"})

\* line 245: index["name"] raises for a descriptor that is no dict or has no name
NameRaises(index) == IF IsObj(index) THEN ~HasKey(index.v, "name") ELSE TRUE
IsIdIndex(index) ==
    LET name == Get(index.v, "name") IN name.t = "str" /\ name.v = "_id_"
\* lines 251: index["key"].items() raises (caught at line 269)
KeyRaises(index) == IF HasKey(index.v, "key") THEN ~IsObj(Get(index.v, "key")) ELSE TRUE

\* line 243: what the for loop iterates; raised when it cannot
IndexList(meta) ==
    IF ~IsObj(meta) THEN [raised |-> TRUE, list |-> <<>>]   \* meta["indexes"] on a list
    ELSE LET l == Get(meta.v, "indexes")
         IN IF IsArr(l) THEN [raised |-> FALSE, list |-> l.v]
            ELSE IF IsObj(l)   \* iterating a dict yields its keys
            THEN [raised |-> FALSE, list |-> [i \in 1..Len(l.v) |-> Str(l.v[i][1])]]
            ELSE [raised |-> TRUE, list |-> <<>>]           \* None, a number

-----------------------------------------------------------------------------
(* The target database *)

NoCollection == [exists |-> FALSE, docs |-> <<>>, indexes |-> <<>>]

\* variant: the drop has no effect
DroppedKeep(st, key) == st
\* Collection.drop()
Dropped(st, key) == [st EXCEPT ![key] = NoCollection]

\* the driver gives a document without _id a fresh ObjectId; a document that
\* carries an _id keeps it
WithId(doc, n) == IF HasKey(doc, "_id") THEN doc ELSE << <<"_id", Oid(n)>> >> \o doc

\* insert_one / insert_many of the first k documents of docs
Inserted(st, key, docs, k, n) ==
    [st EXCEPT ![key] = [exists |-> TRUE,
                         docs |-> @.docs \o [i \in 1..k |-> WithId(docs[i], n + i - 1)],
                         indexes |-> @.indexes]]

\* create_index(key_items, **options)
IndexCreated(st, key, spec) ==
    [st EXCEPT ![key] = [exists |-> TRUE, docs |-> @.docs,
                         indexes |-> Append(@.indexes, spec)]]

Event(op, arg, ok) == [op |-> op, arg |-> arg, ok |-> ok]

\* whether a target operation answers: it may raise while faults remain
Answers == IF faults > 0 THEN {TRUE, FALSE} ELSE {TRUE}

-----------------------------------------------------------------------------
(* Inputs: the metadata folders the model is run on *)

Tags(s) == Arr([i \in 1..Len(s) |-> Str(s[i])])

DocWithId == Obj(<< <<"_id", Num(7)>>, <<"name", Str("ann")>> >>)
DocIdOnly == Obj(<< <<"_id", Str("5f1d7f3e")>> >>)
DocNoId == Obj(<< <<"name", Str("bob")>>, <<"age", Num(30)>> >>)

SampleFile(doc) == Json(Obj(<< <<"sample_document", doc>> >>))

SchemaWithId == Obj(<< <<"_id", Tags(<<"ObjectId">>)>>,
                       <<"name", Tags(<<"string">>)>>,
                       <<"u", Tags(<<"object">>)>>,
                       <<"u._id", Tags(<<"ObjectId">>)>>,
                       <<"n", Tags(<<"null", "mystery">>)>> >>)
SchemaNoId == Obj(<< <<"ok", Num(0)>>, <<"when", Tags(<<"date">>)>> >>)

IdIndex == Obj(<< <<"v", Num(2)>>, <<"key", Obj(<< <<"_id", Num(1)>> >>)>>,
                  <<"name", Str("_id_")>>, <<"ns", Str("db1.c1")>> >>)
GeoIndex == Obj(<< <<"name", Str("idx1")>>,
                   <<"key", Obj(<< <<"loc", Str("2dsphere")>> >>)>> >>)
CompoundIndex == Obj(<< <<"v", Num(2)>>, <<"unique", Bool(TRUE)>>,
                        <<"key", Obj(<< <<"name", Num(1)>>, <<"age", Num(-1)>>,
                                        <<"n", Str("text")>> >>)>>,
                        <<"name", Str("name_1_age_-1_n_text")>>,
                        <<"ns", Str("db1.c1")>> >>)
NoKeyIndex == Obj(<< <<"name", Str("nokey")>> >>)
BadKeyIndex == Obj(<< <<"name", Str("badkey")>>, <<"key", Num(1)>> >>)
NamelessIndex == Obj(<< <<"key", Obj(<< <<"n", Num(1)>> >>)>> >>)
PlainIndex == Obj(<< <<"name", Str("n_1")>>, <<"key", Obj(<< <<"n", Num(1)>> >>)>> >>)

GoodIndexes == Arr(<<IdIndex, GeoIndex, CompoundIndex>>)
FaultyIndexes == Arr(<<NoKeyIndex, PlainIndex, BadKeyIndex, GeoIndex>>)
NamelessIndexes == Arr(<<GeoIndex, NamelessIndex, PlainIndex>>)

SchemaFile(schema, indexes) == Json(Obj(<< <<"schema", schema>>, <<"indexes", indexes>> >>))
IndexesOnly(indexes) == Json(Obj(<< <<"indexes", indexes>> >>))
SchemaOnly(schema) == Json(Obj(<< <<"schema", schema>> >>))

Folder(sample, schema) == [sample |-> sample, schema |-> schema]

\* the folders of the first collection
FolderConfigs == <<
    Folder(Absent, Absent),
    Folder(EmptyFile, Corrupt),
    Folder(Corrupt, EmptyFile),
    Folder(Json(Obj(<< <<"other", Num(1)>> >>)), IndexesOnly(GoodIndexes)),
    Folder(SampleFile(Obj(<<>>)), Json(Obj(<<>>))),
    Folder(SampleFile(Null), Json(Arr(<<Str("x")>>))),
    Folder(Undecodable, SchemaOnly(SchemaNoId)),
    Folder(Json(Arr(<<Num(1)>>)), Absent),
    Folder(Absent, Undecodable),
    Folder(Absent, Json(Num(5))),
    Folder(Absent, Json(Arr(<<Str("schema")>>))),
    Folder(Absent, SchemaOnly(Num(5))),
    Folder(Absent, SchemaOnly(SchemaNoId)),
    Folder(Absent, SchemaFile(SchemaWithId, GoodIndexes)),
    Folder(EmptyFile, SchemaFile(SchemaWithId, FaultyIndexes)),
    Folder(Corrupt, SchemaFile(SchemaNoId, NamelessIndexes)),
    Folder(Absent, SchemaFile(SchemaNoId, Null)),
    Folder(Absent, SchemaFile(SchemaNoId, Obj(<< <<"a", Num(1)>> >>))),
    Folder(SampleFile(DocWithId), Absent),
    Folder(SampleFile(DocIdOnly), Json(Obj(<<>>))),
    Folder(SampleFile(DocIdOnly), Json(Num(5))),
    Folder(SampleFile(DocNoId), Undecodable),
    Folder(SampleFile(DocWithId), SchemaFile(SchemaWithId, GoodIndexes)),
    Folder(SampleFile(DocNoId), IndexesOnly(FaultyIndexes)),
    Folder(SampleFile(DocWithId), IndexesOnly(NamelessIndexes)),
    Folder(SampleFile(Arr(<<Str("_id")>>)), SchemaOnly(SchemaNoId)),
    Folder(SampleFile(Num(3)), Absent) >>

\* the folders of the second collection
NextFolderConfigs == <<
    Folder(Absent, Absent),
    Folder(SampleFile(DocWithId), IndexesOnly(GoodIndexes)),
    Folder(Absent, SchemaOnly(SchemaWithId)) >>

\* <metadata-root>/<database-name>/<collection-name>/, with a plain file
\* beside the database directory and one beside the collection folders
Root(exists, f1, f2) ==
    [exists |-> exists,
     dbs |-> << [name |-> "README", dir |-> FALSE, colls |-> <<>>],
                [name |-> "db1", dir |-> TRUE,
                 colls |-> << [name |-> "c1", dir |-> TRUE, files |-> f1],
                              [name |-> "notes.txt", dir |-> FALSE, files |-> f1],
                              [name |-> "c2", dir |-> TRUE, files |-> f2] >>] >>]

StoreKeys == {<<"db1", "c1">>, <<"db1", "c2">>, <<"db1", "keep">>}

\* a collection already in the target, with MaxInitDocs documents and an index
OldCollection(base) ==
    [exists |-> TRUE,
     docs |-> [i \in 1..MaxInitDocs |-> << <<"_id", Oid(base + i)>>, <<"old", Num(i)>> >>],
     indexes |-> << [keys |-> << <<"old", Num(1)>> >>,
                     options |-> << <<"name", Str("old_1")>> >>] >>]

ZeroStats == [databases_processed |-> 0, collections_processed |-> 0,
              collections_restored |-> 0, errors |-> 0]

-----------------------------------------------------------------------------
(* The restore run *)

walkVars == <<di, ci, stats>>
localVars == <<sample_document, schema_metadata, path, ii, ret>>
targetVars == <<store, nextId, faults, faulted>>
inputVars == <<root, serverUp>>
runVars == <<run, firstCounts>>
genVars == <<schema_in, include_id_in, fake_doc>>

db_entry == root.dbs[di]
coll_entry == db_entry.colls[ci]
coll_folder == coll_entry.files
coll_key == <<db_entry.name, coll_entry.name>>

Counts(st) == [k \in StoreKeys |-> Len(st[k].docs)]

Init ==
    /\ \E i \in 1..Len(FolderConfigs), j \in 1..Len(NextFolderConfigs) :
         \E exists \in BOOLEAN :
            /\ root = Root(exists, FolderConfigs[i], NextFolderConfigs[j])
            /\ exists \/ (i = 1 /\ j = 1)
    /\ serverUp \in BOOLEAN
    /\ serverUp \/ root = Root(TRUE, FolderConfigs[1], NextFolderConfigs[1])
    /\ \E old \in SUBSET {<<"db1", "c1">>, <<"db1", "c2">>} :
         store = [k \in StoreKeys |->
                     IF k \in old \/ k = <<"db1", "keep">>
                     THEN OldCollection(IF k[2] = "c1" THEN 0
                                        ELSE IF k[2] = "c2" THEN MaxInitDocs
                                        ELSE 2 * MaxInitDocs)
                     ELSE NoCollection]
    /\ nextId = 3 * MaxInitDocs + 1
    /\ faults \in {0, MaxFaults}
    /\ faulted = FALSE
    /\ pc = "start"
    /\ di = 0 /\ ci = 0
    /\ stats = ZeroStats
    /\ sample_document = Null /\ schema_metadata = Null
    /\ path = "none" /\ ii = 0 /\ ret = "none"
    /\ calls = <<>>
    /\ run = 1
    /\ firstCounts = Counts(store)
    /\ schema_in = <<>> /\ include_id_in = FALSE /\ fake_doc = <<>>

\* lines 371-390 (and the ping of lines 61-78): the startup checks
Start ==
    /\ pc = "start"
    /\ IF serverUp /\ root.exists
       THEN pc' = "db_loop" /\ stats' = ZeroStats /\ di' = 0 /\ ci' = 0
       ELSE pc' = "returned" /\ UNCHANGED walkVars
    /\ UNCHANGED <<localVars, targetVars, inputVars, runVars, genVars, calls>>

\* lines 392-399 and 417: the loop over the entries of the metadata root
NextDatabase ==
    /\ pc = "db_loop"
    /\ \/ /\ di = Len(root.dbs)
          /\ pc' = "summary"
          /\ UNCHANGED walkVars
       \/ /\ di < Len(root.dbs)
          /\ ~root.dbs[di + 1].dir
          /\ di' = di + 1
          /\ UNCHANGED <<pc, ci, stats>>
       \/ /\ di < Len(root.dbs)
          /\ root.dbs[di + 1].dir
          /\ di' = di + 1
          /\ ci' = 0
          /\ stats' = [stats EXCEPT !.databases_processed = @ + 1]
          /\ pc' = "coll_loop"
    /\ UNCHANGED <<localVars, targetVars, inputVars, runVars, genVars, calls>>

\* lines 401-410 and 415: the loop over the entries of one database folder,
\* up to the call of recreate_collection (line 275)
NextCollection ==
    /\ pc = "coll_loop"
    /\ \/ /\ ci = Len(db_entry.colls)
          /\ pc' = "db_loop"
          /\ UNCHANGED <<walkVars, localVars, calls>>
       \/ /\ ci < Len(db_entry.colls)
          /\ ~db_entry.colls[ci + 1].dir
          /\ ci' = ci + 1
          /\ UNCHANGED <<pc, di, stats, localVars, calls>>
       \/ /\ ci < Len(db_entry.colls)
          /\ db_entry.colls[ci + 1].dir
          /\ ci' = ci + 1
          /\ stats' = [stats EXCEPT !.collections_processed = @ + 1]
          /\ sample_document' = Null /\ schema_metadata' = Null
          /\ path' = "none" /\ ii' = 0 /\ ret' = "none"
          /\ calls' = <<>>
          /\ pc' = "rc_list"
          /\ UNCHANGED di
    /\ UNCHANGED <<targetVars, inputVars, runVars, genVars>>

\* variant: the existence test of line 278 never finds the collection
ListCollectionsBlind ==
    /\ pc = "rc_list"
    /\ \E ok \in Answers :
         /\ calls' = Append(calls, Event("list_collection_names", Null, ok))
         /\ IF ok
            THEN /\ pc' = "rc_load"
                 /\ UNCHANGED <<faults, faulted>>
            ELSE /\ pc' = "crashed"
                 /\ faults' = faults - 1 /\ faulted' = TRUE
    /\ UNCHANGED <<walkVars, localVars, store, nextId, inputVars, runVars, genVars>>

\* line 278: db.list_collection_names(), outside any try
ListCollections ==
    /\ pc = "rc_list"
    /\ \E ok \in Answers :
         /\ calls' = Append(calls, Event("list_collection_names", Null, ok))
         /\ IF ok
            THEN /\ pc' = IF store[coll_key].exists THEN "rc_drop" ELSE "rc_load"
                 /\ UNCHANGED <<faults, faulted>>
            ELSE /\ pc' = "crashed"
                 /\ faults' = faults - 1 /\ faulted' = TRUE
    /\ UNCHANGED <<walkVars, localVars, store, nextId, inputVars, runVars, genVars>>

\* lines 279-280: db[coll_name].drop(), outside any try
DropCollection ==
    /\ pc = "rc_drop"
    /\ \E ok \in Answers :
         /\ calls' = Append(calls, Event("drop", Null, ok))
         /\ IF ok
            THEN /\ store' = Dropped(store, coll_key)
                 /\ pc' = "rc_load"
                 /\ UNCHANGED <<faults, faulted>>
            ELSE /\ pc' = "crashed"
                 /\ faults' = faults - 1 /\ faulted' = TRUE
                 /\ UNCHANGED store
    /\ UNCHANGED <<walkVars, localVars, nextId, inputVars, runVars, genVars>>

\* lines 283-296: read the metadata and choose the insertion branch
LoadMetadata ==
    /\ pc = "rc_load"
    /\ LET m == MetadataOutcome(coll_folder)
       IN /\ sample_document' = m.sample_document
          /\ schema_metadata' = m.schema_metadata
          /\ \/ /\ m.kind = "raise"
                /\ pc' = "crashed"
                /\ UNCHANGED <<path, ret>>
             \/ /\ m.kind = "skip"
                /\ ret' = "False"
                /\ pc' = "rc_return"
                /\ UNCHANGED path
             \/ /\ m.kind = "sample"
                /\ path' = "sample"
                /\ pc' = "rc_insert_sample"
                /\ UNCHANGED ret
             \/ /\ m.kind = "schema"
                /\ path' = "schema"
                /\ pc' = "rc_insert_synthetic"
                /\ UNCHANGED ret
    /\ UNCHANGED <<walkVars, ii, targetVars, inputVars, runVars, genVars, calls>>

\* the except clause of lines 343-349: recreate_collection returns False
Caught ==
    /\ ret' = "False"
    /\ pc' = "rc_return"

\* lines 300-314: the sample-document branch
InsertSample ==
    /\ pc = "rc_insert_sample"
    /\ IF ~IsObj(sample_document)
       THEN \* .copy() of a number, del on a list, insert_one of a non-dict
            /\ Caught
            /\ UNCHANGED <<schema_metadata, targetVars, calls>>
       ELSE LET document_to_insert == StripId(sample_document.v)
                late == LateSchema(coll_folder.schema)
            IN \E ok \in Answers :
                 /\ calls' = Append(calls, Event("insert_one", document_to_insert, ok))
                 /\ IF ~ok
                    THEN /\ Caught
                         /\ faults' = faults - 1 /\ faulted' = TRUE
                         /\ UNCHANGED <<schema_metadata, store, nextId>>
                    ELSE /\ store' = Inserted(store, coll_key, <<document_to_insert>>, 1, nextId)
                         /\ nextId' = nextId + 1
                         /\ UNCHANGED <<faults, faulted>>
                         /\ IF late.raised
                            THEN Caught /\ UNCHANGED schema_metadata
                            ELSE /\ schema_metadata' = late.v
                                 /\ pc' = "rc_indexes"
                                 /\ UNCHANGED ret
    /\ UNCHANGED <<walkVars, sample_document, path, ii, inputVars, runVars, genVars>>

\* lines 316-329: the synthetic branch; an insert_many that raises has
\* written the documents before the one it failed on
InsertSynthetic ==
    /\ pc = "rc_insert_synthetic"
    /\ IF ~IsObj(schema_metadata) \/ ~IsObj(Get(schema_metadata.v, "schema"))
       THEN \* ["schema"] on a list, .items() on a non-dict
            /\ Caught
            /\ UNCHANGED <<targetVars, calls>>
       ELSE \E synthetic_docs \in
                 [1..SYNTHETIC_DOCS_COUNT ->
                     generate_synthetic_document(Get(schema_metadata.v, "schema").v, FALSE)] :
              \E ok \in Answers :
                 /\ calls' = Append(calls, Event("insert_many", synthetic_docs, ok))
                 /\ IF ok
                    THEN /\ store' = Inserted(store, coll_key, synthetic_docs,
                                              Len(synthetic_docs), nextId)
                         /\ nextId' = nextId + Len(synthetic_docs)
                         /\ pc' = "rc_indexes"
                         /\ UNCHANGED <<ret, faults, faulted>>
                    ELSE /\ \E k \in 0..(Len(synthetic_docs) - 1) :
                              /\ store' = Inserted(store, coll_key, synthetic_docs, k, nextId)
                              /\ nextId' = nextId + k
                         /\ Caught
                         /\ faults' = faults - 1 /\ faulted' = TRUE
    /\ UNCHANGED <<walkVars, sample_document, schema_metadata, path, ii, inputVars,
                   runVars, genVars>>

\* lines 335-336 and 235-243: the call of restore_indexes and its entry
RestoreIndexes ==
    /\ pc = "rc_indexes"
    /\ IF ~Truthy(schema_metadata)
       THEN pc' = "rc_count" /\ UNCHANGED <<ret, calls>>
       ELSE /\ calls' = Append(calls, Event("restore_indexes", Null, TRUE))
            /\ IF PyContains(schema_metadata, "indexes") = "raise"
               THEN Caught
               ELSE IF PyContains(schema_metadata, "indexes") = "false"
               THEN pc' = "rc_count" /\ UNCHANGED ret
               ELSE IF IndexList(schema_metadata).raised
               THEN Caught
               ELSE pc' = "ri_loop" /\ UNCHANGED ret
    /\ ii' = 0
    /\ UNCHANGED <<walkVars, sample_document, schema_metadata, path, targetVars,
                   inputVars, runVars, genVars>>

\* lines 243-270: one turn of the loop of restore_indexes, or its end
RestoreIndex ==
    /\ pc = "ri_loop"
    /\ LET list == IndexList(schema_metadata).list
           index == list[ii + 1]
       IN \/ /\ ii = Len(list)
             /\ pc' = "rc_count"
             /\ UNCHANGED <<ii, ret, targetVars, calls>>
          \/ /\ ii < Len(list)
             /\ NameRaises(index)        \* line 245, outside the try of line 248
             /\ Caught
             /\ UNCHANGED <<ii, targetVars, calls>>
          \/ /\ ii < Len(list)
             /\ ~NameRaises(index)
             /\ IF IsIdIndex(index) THEN TRUE     \* line 246: continue
                ELSE KeyRaises(index)          \* caught at line 269
             /\ ii' = ii + 1
             /\ UNCHANGED <<pc, ret, targetVars, calls>>
          \/ /\ ii < Len(list)
             /\ ~NameRaises(index)
             /\ ~IsIdIndex(index)
             /\ ~KeyRaises(index)
             /\ LET spec == [keys |-> KeyItems(Get(index.v, "key").v),
                             options |-> Options(index.v)]
                IN \E ok \in Answers :
                     /\ calls' = Append(calls, Event("create_index", spec, ok))
                     /\ IF ok
                        THEN /\ store' = IndexCreated(store, coll_key, spec)
                             /\ UNCHANGED <<faults, faulted>>
                        ELSE /\ faults' = faults - 1 /\ faulted' = TRUE
                             /\ UNCHANGED store
             /\ ii' = ii + 1
             /\ UNCHANGED <<pc, ret, nextId>>
    /\ UNCHANGED <<walkVars, sample_document, schema_metadata, path, inputVars,
                   runVars, genVars>>

\* lines 338-341
CountDocuments ==
    /\ pc = "rc_count"
    /\ \E ok \in Answers :
         /\ calls' = Append(calls, Event("count_documents",
                                         Num(Len(store[coll_key].docs)), ok))
         /\ pc' = "rc_return"
         /\ IF ok
            THEN ret' = "True" /\ UNCHANGED <<faults, faulted>>
            ELSE ret' = "False" /\ faults' = faults - 1 /\ faulted' = TRUE
    /\ UNCHANGED <<walkVars, sample_document, schema_metadata, path, ii, store, nextId,
                   inputVars, runVars, genVars>>

\* lines 410-413: main counts the result
CountResult ==
    /\ pc = "rc_return"
    /\ stats' = IF ret = "True"
                THEN [stats EXCEPT !.collections_restored = @ + 1]
                ELSE [stats EXCEPT !.errors = @ + 1]
    /\ pc' = "coll_loop"
    /\ UNCHANGED <<di, ci, localVars, targetVars, inputVars, runVars, genVars, calls>>

\* lines 417-422
Summary ==
    /\ pc = "summary"
    /\ pc' = "done"
    /\ UNCHANGED <<walkVars, localVars, targetVars, inputVars, runVars, genVars, calls>>

Ended == pc \in {"done", "returned", "crashed"}

\* the script is run again on the same metadata root (lines 425-426)
RunAgain ==
    /\ Ended
    /\ run < MaxRuns
    /\ run' = run + 1
    /\ firstCounts' = IF run = 1 THEN Counts(store) ELSE firstCounts
    /\ pc' = "start"
    /\ di' = 0 /\ ci' = 0 /\ stats' = ZeroStats
    /\ sample_document' = Null /\ schema_metadata' = Null
    /\ path' = "none" /\ ii' = 0 /\ ret' = "none"
    /\ calls' = <<>>
    /\ UNCHANGED <<targetVars, inputVars, genVars>>

Next ==
    \/ Start
    \/ NextDatabase
    \/ NextCollection
    \/ ListCollections
    \/ DropCollection
    \/ LoadMetadata
    \/ InsertSample
    \/ InsertSynthetic
    \/ RestoreIndexes
    \/ RestoreIndex
    \/ CountDocuments
    \/ CountResult
    \/ Summary
    \/ RunAgain

Spec == Init /\ [][Next]_vars

-----------------------------------------------------------------------------
(* generate_synthetic_document on its own: one call on a schema descriptor *)

GenSchemas == <<
    << <<"_id", Tags(<<"ObjectId">>)>>, <<"age", Tags(<<"int">>)>> >>,
    << <<"age", Tags(<<"int", "null">>)>> >>,
    << <<"age", Tags(<<"double", "int">>)>>, <<"ok", Tags(<<"boolean">>)>> >>,
    << <<"age", Tags(<<"string", "int">>)>> >>,
    << <<"age", Tags(<<"int", "string">>)>> >>,
    << <<"age", Tags(<<"long">>)>>, <<"n", Tags(<<>>)>> >>,
    << <<"age", Num(5)>> >>,
    << <<"Age", Tags(<<"int">>)>> >>,
    << <<"page", Tags(<<"int">>)>>, <<"n", Tags(<<"null">>)>> >>,
    << <<"u", Tags(<<"object">>)>>, <<"u.age", Tags(<<"int">>)>>,
       <<"u._id", Tags(<<"ObjectId">>)>> >>,
    << <<"year", Tags(<<"int">>)>> >>,
    << <<"count", Tags(<<"int">>)>> >>,
    << <<"n", Tags(<<"int">>)>>, <<"name", Tags(<<"string">>)>>,
       <<"email", Tags(<<"string">>)>>, <<"date", Tags(<<"string">>)>> >>,
    << <<"location", Tags(<<"object">>)>>, <<"location.type", Tags(<<"Point">>)>> >>,
    << <<"geo", Tags(<<"GeoJSON Point">>)>>, <<"loc", Tags(<<"GeoJSON">>)>> >>,
    << <<"tags", Tags(<<"array">>)>>, <<"price", Tags(<<"double">>)>>,
       <<"when", Tags(<<"date">>)>>, <<"_id", Tags(<<"Decimal128">>)>> >> >>

InitGen ==
    /\ root = Root(FALSE, FolderConfigs[1], NextFolderConfigs[1])
    /\ serverUp = FALSE
    /\ store = [k \in StoreKeys |-> NoCollection]
    /\ nextId = 1
    /\ faults = 0 /\ faulted = FALSE
    /\ pc = "gen_call"
    /\ di = 0 /\ ci = 0
    /\ stats = ZeroStats
    /\ sample_document = Null /\ schema_metadata = Null
    /\ path = "none" /\ ii = 0 /\ ret = "none"
    /\ calls = <<>>
    /\ run = 1
    /\ firstCounts = Counts(store)
    /\ \E i \in 1..Len(GenSchemas) : schema_in = GenSchemas[i]
    /\ include_id_in \in BOOLEAN
    /\ fake_doc = <<>>

\* lines 102-232: one call returns
Generate ==
    /\ pc = "gen_call"
    /\ fake_doc' \in generate_synthetic_document(schema_in, include_id_in)
    /\ pc' = "gen_return"
    /\ UNCHANGED <<walkVars, localVars, targetVars, inputVars, runVars, calls,
                   schema_in, include_id_in>>

NextGen == Generate

SpecGen == InitGen /\ [][NextGen]_vars

-----------------------------------------------------------------------------
(* Properties *)

\* the control thread is inside recreate_collection for coll_folder, or has
\* just left it (by return or by an exception nothing caught)
AfterInsertion == pc \in {"rc_indexes", "ri_loop", "rc_count", "rc_return"}

EventsOf(ops) == SelectSeq(calls, LAMBDA e : e.op \in ops)
Inserts == EventsOf({"insert_one", "insert_many"})
Creates == EventsOf({"create_index"})
Position(op) == CHOOSE i \in 1..Len(calls) : calls[i].op = op
Issued(op) == \E i \in 1..Len(calls) : calls[i].op = op

\* example_document.json holds a present, non-empty sample document
HasSampleDocument(folder) ==
    /\ folder.sample.kind = "json"
    /\ IsObj(folder.sample.value)
    /\ HasKey(folder.sample.value.v, "sample_document")
    /\ IsObj(Get(folder.sample.value.v, "sample_document"))
    /\ Len(Get(folder.sample.value.v, "sample_document").v) > 0
OriginalSample(folder) == Get(folder.sample.value.v, "sample_document").v

\* no usable sample document: the file is absent, empty, unparseable, or
\* holds no non-empty sample_document
NoUsableSample(folder) ==
    IF folder.sample.kind # "json" THEN TRUE
    ELSE IF ~IsObj(folder.sample.value) THEN TRUE
    ELSE IF ~HasKey(folder.sample.value.v, "sample_document") THEN TRUE
    ELSE ~Truthy(Get(folder.sample.value.v, "sample_document"))

\* schema_and_indexes.json holds a "schema" key
HasSchemaKey(folder) ==
    /\ folder.schema.kind = "json"
    /\ IsObj(folder.schema.value)
    /\ HasKey(folder.schema.value.v, "schema")
\* ... whose value is a schema descriptor (a mapping)
HasSchemaSection(folder) ==
    /\ HasSchemaKey(folder)
    /\ IsObj(Get(folder.schema.value.v, "schema"))

(* C1: when recreate_collection has run its insertion step on a folder whose
   example_document.json holds a non-empty sample document, it has issued
   exactly one insertion request, an insert_one of the sample without its
   _id field, the other fields unchanged; once the target has accepted it the
   collection holds exactly one document, whose _id is an identifier made by
   the target side and differs from the sample's original _id. *)
C1_SampleInsertedOnceWithoutId ==
    (AfterInsertion /\ HasSampleDocument(coll_folder)) =>
        /\ Len(Inserts) = 1
        /\ Inserts[1].op = "insert_one"
        /\ ~HasKey(Inserts[1].arg, "_id")
        /\ Inserts[1].arg = SelectSeq(OriginalSample(coll_folder), LAMBDA p : p[1] # "_id")
        /\ Inserts[1].ok =>
              /\ Len(store[coll_key].docs) = 1
              /\ Get(store[coll_key].docs[1], "_id").t = "oid"
              /\ HasKey(OriginalSample(coll_folder), "_id") =>
                    Get(store[coll_key].docs[1], "_id")
                        # Get(OriginalSample(coll_folder), "_id")

C1_Witness ==
    /\ pc = "rc_return" /\ ret = "True"
    /\ HasSampleDocument(coll_folder)
    /\ HasKey(OriginalSample(coll_folder), "_id")
    /\ Len(OriginalSample(coll_folder)) > 1
    /\ Len(store[coll_key].docs) = 1
    /\ Issued("drop")

(* C2: when recreate_collection has run its insertion step on a folder with
   no usable sample document and a schema section in schema_and_indexes.json,
   it has issued exactly one insertion request, an insert_many of exactly
   SYNTHETIC_DOCS_COUNT (10) documents none of which has an _id key, also
   when the schema lists an _id field; once the target has accepted it the
   collection holds exactly 10 documents. *)
C2_SyntheticBatchWithoutId ==
    (AfterInsertion /\ NoUsableSample(coll_folder) /\ HasSchemaSection(coll_folder)) =>
        /\ Len(Inserts) = 1
        /\ Inserts[1].op = "insert_many"
        /\ Len(Inserts[1].arg) = 10
        /\ \A i \in 1..Len(Inserts[1].arg) : ~HasKey(Inserts[1].arg[i], "_id")
        /\ Inserts[1].ok => Len(store[coll_key].docs) = 10

C2_Witness ==
    /\ pc = "rc_return" /\ ret = "True"
    /\ NoUsableSample(coll_folder) /\ HasSchemaSection(coll_folder)
    /\ HasKey(Get(coll_folder.schema.value.v, "schema").v, "_id")
    /\ Len(store[coll_key].docs) = 10
    /\ \A i \in 1..10 : Len(store[coll_key].docs[i]) > 1

\* no usable schema: the file is absent, empty, unparseable, or has no
\* "schema" key
NoUsableSchema(folder) == ~HasSchemaKey(folder)

NoWrites ==
    /\ Len(Inserts) = 0
    /\ Len(Creates) = 0
    /\ store[coll_key].docs = <<>>
    /\ store[coll_key].indexes = <<>>

(* C3: for a collection folder with neither a usable sample document nor a
   usable schema, and a target that answers every request,
   recreate_collection ends by returning failure with nothing inserted (so
   that main can count the error and take the next folder); it never ends
   by an exception that leaves main. *)
C3_NeitherUsableReturnsFailure ==
    (/\ pc \in {"rc_return", "crashed"}
     /\ ~faulted
     /\ NoUsableSample(coll_folder)
     /\ NoUsableSchema(coll_folder)) =>
        /\ pc = "rc_return"
        /\ ret = "False"
        /\ NoWrites

(* C5: once the startup checks have passed, no error raised while one
   collection is processed ends the directory walk: the control thread never
   leaves main by an uncaught exception. *)
C5_WalkNeverAborted == pc # "crashed"

\* restore_indexes has entered its loop over schema_metadata["indexes"]
LoopEntered ==
    /\ pc \in {"ri_loop", "rc_count", "rc_return"}
    /\ Issued("restore_indexes")
    /\ Truthy(schema_metadata)
    /\ PyContains(schema_metadata, "indexes") = "true"
    /\ ~IndexList(schema_metadata).raised

(* C7: a failure while one index descriptor is handled does not end
   restore_indexes: when recreate_collection returns after restore_indexes
   entered its loop, every descriptor of the list has been handled. *)
C7_EveryDescriptorHandled ==
    (pc = "rc_return" /\ LoopEntered) => ii = Len(IndexList(schema_metadata).list)

(* C4: when a second (or later) run of main on the same metadata root has
   ended, and every request of the runs was answered by the target, every
   collection holds as many documents as when the first run ended. *)
C4_SecondRunSameCounts ==
    (run >= 2 /\ Ended /\ ~faulted) => Counts(store) = firstCounts

C4_Witness ==
    /\ run = 2 /\ pc = "done" /\ ~faulted
    /\ stats.collections_restored = 2
    /\ firstCounts[<<"db1", "c1">>] = 10
    /\ firstCounts[<<"db1", "c2">>] = 1
    /\ Counts(store) = firstCounts

\* a descriptor restore_indexes sends a creation request for: a mapping
\* with a name other than _id_ and a key mapping
Creatable(index) ==
    IF ~IsObj(index) THEN FALSE
    ELSE IF ~HasKey(index.v, "name") \/ ~HasKey(index.v, "key") THEN FALSE
    ELSE /\ Get(index.v, "name") # Str("_id_")
         /\ IsObj(Get(index.v, "key"))

\* the request the claim describes for a descriptor
ClaimedDirection(value) ==
    CASE value = Num(1) -> Num(1)                  \* ascending
      [] value = Num(-1) -> Num(-1)                \* descending
      [] value = Str("2dsphere") -> Str("2dsphere") \* geospatial
      [] OTHER -> value
MatchesDescriptor(spec, index) ==
    LET key == Get(index.v, "key").v
    IN /\ Len(spec.keys) = Len(key)
       /\ \A k \in 1..Len(key) :
             spec.keys[k] = <<key[k][1], ClaimedDirection(key[k][2])>>
       /\ spec.options = SelectSeq(index.v, LAMBDA p : p[1] \notin {"v", "key", "ns"})
       /\ \A k \in 1..Len(spec.options) : spec.options[k][1] \notin {"v", "key", "ns"}

(* C6: at every point of the loop of restore_indexes, the index-creation
   requests issued so far are, in order, exactly one for each descriptor
   handled so far that has a name other than _id_ and a key mapping; each
   request's key list has one (field, direction) pair per entry of the
   descriptor's key mapping, in the mapping's order, 1 as ascending, -1 as
   descending, "2dsphere" as geospatial and any other value unchanged, and
   its options are the descriptor's entries without v, key and ns; no
   request is issued for the descriptor named _id_. *)
C6_OneRequestPerDescriptor ==
    LoopEntered =>
        LET handled == SubSeq(IndexList(schema_metadata).list, 1, ii)
            due == SelectSeq(handled, Creatable)
        IN /\ Len(Creates) = Len(due)
           /\ \A k \in 1..Len(due) : MatchesDescriptor(Creates[k].arg, due[k])
           /\ \A k \in 1..Len(Creates) :
                 Get(Creates[k].arg.options, "name") # Str("_id_")

C6_Witness ==
    /\ pc = "rc_count"
    /\ LoopEntered
    /\ ii = 3
    /\ IndexList(schema_metadata).list[1] = IdIndex
    /\ Len(Creates) = 2
    /\ Creates[1].arg = [keys |-> << <<"loc", Str("2dsphere")>> >>,
                         options |-> << <<"name", Str("idx1")>> >>]
    /\ Creates[2].arg.keys = << <<"name", Num(1)>>, <<"age", Num(-1)>>, <<"n", Str("text")>> >>
    /\ Len(store[coll_key].indexes) = 2

\* schema_and_indexes.json loads successfully
SchemaLoads(folder) == folder.schema.kind = "json"
InsertionSucceeded == Len(Inserts) = 1 /\ Inserts[1].ok

\* restore_indexes was called after the insertion and before any count
IndexesRestoredInOrder ==
    /\ Issued("restore_indexes")
    /\ \A i \in 1..Len(calls) :
          /\ calls[i].op \in {"insert_one", "insert_many"} => i < Position("restore_indexes")
          /\ calls[i].op = "count_documents" => i > Position("restore_indexes")

(* C8 as stated: when recreate_collection returns on a folder whose
   schema_and_indexes.json loads successfully and the insertion succeeded,
   restore_indexes has been called, after the insertion and before the
   document count. *)
C8_IndexesRestoredWhenSchemaLoads ==
    (pc = "rc_return" /\ SchemaLoads(coll_folder) /\ InsertionSucceeded) =>
        IndexesRestoredInOrder

(* C8, amended: when recreate_collection returns on a folder whose
   schema_and_indexes.json loads to a non-empty (truthy) value and the
   insertion succeeded, restore_indexes has been called, after the insertion
   and before the document count; on the sample-document path too, where the
   file is read only after the insertion. *)
C8_IndexesRestoredWhenSchemaTruthy ==
    (/\ pc = "rc_return"
     /\ SchemaLoads(coll_folder)
     /\ Truthy(coll_folder.schema.value)
     /\ InsertionSucceeded) =>
        IndexesRestoredInOrder

C8_Witness ==
    /\ pc = "rc_return" /\ ret = "True"
    /\ path = "sample"
    /\ SchemaLoads(coll_folder) /\ Truthy(coll_folder.schema.value)
    /\ InsertionSucceeded
    /\ Position("insert_one") < Position("restore_indexes")
    /\ Issued("create_index")
    /\ Position("restore_indexes") < Position("count_documents")

(* C10: when recreate_collection returns failure because no usable metadata
   was found, the target holds no collection of that name, also when one
   existed before the call, and no document or index has been written. *)
C10_DroppedBeforeMetadataIsRead ==
    (pc = "rc_return" /\ ret = "False" /\ path = "none") =>
        /\ ~store[coll_key].exists
        /\ NoWrites

C10_Witness ==
    /\ pc = "rc_return" /\ ret = "False" /\ path = "none"
    /\ Issued("drop")
    /\ ~store[coll_key].exists

\* the schema descriptor has an int-typed field named age
IntTypedAge ==
    /\ HasKey(schema_in, "age")
    /\ IsArr(Get(schema_in, "age"))
    /\ Has(Get(schema_in, "age"), "int")
AgeInRange ==
    /\ HasKey(fake_doc, "age")
    /\ Get(fake_doc, "age").t = "num"
    /\ Get(fake_doc, "age").v >= 18
    /\ Get(fake_doc, "age").v <= 80

(* C9 as stated: for a schema descriptor whose field age has a type-tag list
   containing "int", possibly with other tags, the generated value of age is
   an integer in [18, 80]. *)
C9_IntAgeInRange ==
    (pc = "gen_return" /\ IntTypedAge) => AgeInRange

(* C9, amended: for a schema descriptor whose field age has a type-tag list
   containing "int" and not "string" (the tag tested before "int"), the
   generated value of age is an integer in [18, 80]. *)
C9_IntNotStringAgeInRange ==
    (pc = "gen_return" /\ IntTypedAge /\ ~Has(Get(schema_in, "age"), "string")) =>
        AgeInRange

C9_Witness ==
    /\ pc = "gen_return"
    /\ IntTypedAge
    /\ Has(Get(schema_in, "age"), "double")
    /\ Get(fake_doc, "age") = Num(80)

=============================================================================
